---- MODULE Spec2Model ----
(***************************************************************************)
(* uls_exporter (src/main.go): a Prometheus collector that, on every       *)
(* scrape, GETs <base>/v1/admin/lease from a license server, decodes the   *)
(* JSON array of leases and emits the gauges uls_up and uls_leases.        *)
(*                                                                         *)
(* Library calls are modelled at the call boundary by the outcomes the     *)
(* call can hand back to main.go: url.Parse and prometheus.Register return *)
(* nil or an error, flag.Parse returns or exits the process, http.Handle   *)
(* returns or panics, http.Get returns the final response or an error,     *)
(* json.Unmarshal decodes the body as encoding/json does.                  *)
(***************************************************************************)
EXTENDS Naturals, Sequences, FiniteSets, TLC

VARIABLES
    mainpc,     \* position of main()/App.Main
    exit,       \* how the process ended, NoExit while it runs
    app,        \* App{Listen, Path, URI} after flag.Parse
    exporter,   \* *ULSExporter built by NewULSExporter, NoExporter before
    registered, \* whether the default registry holds the exporter
    up,         \* package-level descriptor `up`
    lease,      \* package-level descriptor `lease`
    described,  \* descriptors sent by the latest Describe call
    upstream,   \* what the license server answers to a GET right now
    pc,         \* per scrape goroutine: position inside Collect
    res,        \* per invocation: the outcome of its own http.Get
    leases,     \* per invocation: local `leases` of Collect
    err,        \* per invocation: local `err` of Collect
    out,        \* per invocation: samples sent on its channel ch
    req,        \* per invocation: URLs handed to http.Get
    logged      \* number of lines written by log.Println (saturating)

vars == <<mainpc, exit, app, exporter, registered, up, lease, described, upstream,
          pc, res, leases, err, out, req, logged>>

(***************************** bounds **************************************)
NumProcs == 2     \* overlapping scrape requests
MaxLeases == 2    \* leases held by the upstream in the concurrent runs
MaxLen == 2       \* elements of a JSON array body in the decoding runs
MaxLog == 2       \* log lines counted before the counter saturates

Procs == 1..NumProcs

(************************* program constants *******************************)
namespace == "uls"
LeasePath == "/v1/admin/lease"
StatusOK == 200
DefaultListen == ":9101"
DefaultPath == "/metrics"
DefaultURI == "http://localhost:8080"

(***************************** URLs ****************************************)
\* Command lines / environments the process can be started with.  BadURI is
\* a string url.Parse rejects; "" parses into an URL without scheme and host.
BadURI == "http://[::1"
URIs == {DefaultURI, "", BadURI}
Paths == {DefaultPath, ""}

NoURL == [scheme |-> "", host |-> "", path |-> "", ok |-> FALSE]

\* url.Parse on the strings of URIs.
urlParse(s) ==
    CASE s = DefaultURI -> [scheme |-> "http", host |-> "localhost:8080", path |-> "", ok |-> TRUE]
      [] s = ""         -> [scheme |-> "", host |-> "", path |-> "", ok |-> TRUE]
      [] OTHER          -> NoURL

ResolveReferenceKeepBase(base, ref) ==
    [scheme |-> base.scheme, host |-> base.host, path |-> base.path, ok |-> TRUE]

\* (*URL).Parse with an absolute-path reference: scheme and host of the base,
\* path of the reference.
ResolveReference(base, ref) ==
    [scheme |-> base.scheme, host |-> base.host, path |-> ref, ok |-> TRUE]

\* (*URL).String
URLString(u) ==
    (IF u.scheme = "" THEN "" ELSE u.scheme \o "://") \o u.host \o u.path

NoExporter == [BaseURL |-> NoURL, ok |-> FALSE]

NewULSExporter(baseURL) ==
    LET u == urlParse(baseURL)
    IN  IF ~u.ok THEN [exporter |-> NoExporter, err |-> "parse"]
        ELSE [exporter |-> [BaseURL |-> u, ok |-> TRUE], err |-> "nil"]

(*************************** descriptors ***********************************)
BuildFQName(ns, subsystem, name) ==
    IF name = "" THEN ""
    ELSE IF ns # "" /\ subsystem # "" THEN ns \o "_" \o subsystem \o "_" \o name
    ELSE IF ns # "" THEN ns \o "_" \o name
    ELSE IF subsystem # "" THEN subsystem \o "_" \o name
    ELSE name

NewDesc(fqName, help) == [fqName |-> fqName, help |-> help, labels |-> <<>>]

UpDesc == NewDesc(BuildFQName(namespace, "", "up"), "ULS is up and running")
LeaseDesc == NewDesc(BuildFQName(namespace, "", "leases"), "Number of active ULS leases")

\* prometheus.MustNewConstMetric(desc, GaugeValue, v)
ConstMetric(desc, v) == [desc |-> desc, value |-> v]

(***************************** errors **************************************)
Err(msg, code) == [msg |-> msg, code |-> code]
NilErr == Err("nil", 0)

(************************ upstream responses *******************************)
\* JSON timestamps.  time.Parse(TimeUTCFormat, s) accepts the first two.
TimeZulu == "2020-01-02T03:04:05Z"
TimeFrac == "2020-01-02T03:04:05.123456+02:00"
TimeSpace == "2020-01-02 03:04:05"
ZeroTime == "0001-01-01T00:00:00Z"

\* time.Parse with the layout "2006-01-02T15:04:05.999999Z07:00".
timeParse(s) ==
    IF s \in {TimeZulu, TimeFrac} THEN [t |-> s, err |-> NilErr]
    ELSE [t |-> ZeroTime, err |-> Err("parsing time", 0)]

\* JSON values standing for one element of the body's array: the JSON kind
\* of the element and, for an object, the tokens of floatingLeaseId and
\* createdTimeUtc (tokType "absent" when the member is missing).
Elem(json, idType, id, createdType, created) ==
    [json |-> json, idType |-> idType, id |-> id,
     createdType |-> createdType, created |-> created]

LeaseJSON(id) == Elem("object", "number", id, "string", TimeZulu)
FracLeaseJSON == Elem("object", "number", 7, "string", TimeFrac)
BadTimeJSON == Elem("object", "number", 8, "string", TimeSpace)
BadIdJSON == Elem("object", "string", 0, "string", TimeZulu)
NullJSON == Elem("null", "absent", 0, "absent", "")
NumberJSON == Elem("number", "absent", 0, "absent", "")

Elems == {FracLeaseJSON, BadTimeJSON, BadIdJSON, NullJSON, NumberJSON}

\* Bodies: a JSON array, the literal null, a JSON object, or bytes that are
\* not JSON at all.
Body(kind, elems) == [kind |-> kind, elems |-> elems]
ArrayBody(elems) == Body("array", elems)
NullBody == Body("null", <<>>)
ObjectBody == Body("object", <<>>)
SyntaxBody == Body("syntax", <<>>)

\* What http.Get hands back: a transport error, or a response with a status,
\* a body, and whether reading the body to the end succeeds.
Response(status, readOk, body) ==
    [net |-> "ok", status |-> status, readOk |-> readOk, body |-> body]
TransportError(why) ==
    [net |-> why, status |-> 0, readOk |-> FALSE, body |-> SyntaxBody]
Refused == TransportError("refused")
NoResponse == TransportError("none")

(*************************** JSON decoding *********************************)
ZeroLease == [FloatingLeaseID |-> 0, CreatedTimeUTC |-> ZeroTime]

TimeUTCUnmarshalUnchecked(t, tokType, tok) == [t |-> t, err |-> NilErr]

\* TimeUTC.UnmarshalJSON on a value receiver: the token is decoded as a
\* string and parsed; the parsed time is assigned to the local copy t, so
\* the field the decoder holds keeps the value it had.
TimeUTCUnmarshalJSON(t, tokType, tok) ==
    LET s == IF tokType = "string" THEN tok ELSE ""
        parsed == timeParse(s)
    IN  IF tokType = "number" THEN [t |-> t, err |-> Err("UnmarshalTypeError", 0)]
        ELSE IF parsed.err # NilErr THEN [t |-> t, err |-> parsed.err]
        ELSE [t |-> t, err |-> NilErr]

\* encoding/json on one array element of type ULSLease.  saved: a type
\* mismatch the decoder records and carries on from; abort: an error of a
\* custom unmarshaler, which ends the decoding at once.
decodeElem(e) ==
    LET tm == TimeUTCUnmarshalJSON(ZeroTime, e.createdType, e.created)
        id == IF e.idType = "number" THEN e.id ELSE 0
    IN  CASE e.json = "null" ->
               [lease |-> ZeroLease, saved |-> NilErr, abort |-> NilErr]
          [] e.json = "object" ->
               [lease |-> [FloatingLeaseID |-> id, CreatedTimeUTC |-> tm.t],
                saved |-> IF e.idType = "string"
                          THEN Err("UnmarshalTypeError", 0) ELSE NilErr,
                abort |-> IF e.createdType = "absent" THEN NilErr ELSE tm.err]
          [] OTHER ->
               [lease |-> ZeroLease, saved |-> Err("UnmarshalTypeError", 0),
                abort |-> NilErr]

RECURSIVE decodeArray(_, _, _, _)
decodeArray(elems, i, acc, saved) ==
    IF i > Len(elems) THEN [leases |-> acc, err |-> saved]
    ELSE LET d == decodeElem(elems[i])
         IN  IF d.abort # NilErr
             THEN [leases |-> Append(acc, d.lease), err |-> d.abort]
             ELSE decodeArray(elems, i + 1, Append(acc, d.lease),
                              IF saved = NilErr THEN d.saved ELSE saved)

\* json.Unmarshal(b, &leases): the slice as the decoder leaves it, and the
\* error it returns.
jsonUnmarshal(body) ==
    CASE body.kind = "syntax" -> [leases |-> <<>>, err |-> Err("SyntaxError", 0)]
      [] body.kind = "null"   -> [leases |-> <<>>, err |-> NilErr]
      [] body.kind = "array"  -> decodeArray(body.elems, 1, <<>>, NilErr)
      [] OTHER -> [leases |-> <<>>, err |-> Err("UnmarshalTypeError", 0)]

(***************************** GetLeases ***********************************)
\* http.Get(url) against the server's current answer: a URL without a
\* supported scheme fails in the client before anything is sent.
httpGet(u, server) ==
    IF u.scheme \notin {"http", "https"} THEN TransportError("unsupported") ELSE server

StatusIs2xx(code) == code >= 200 /\ code < 300

StatusIsOK(code) == code = StatusOK

DecodeReturnPartial(dec) == [leases |-> dec.leases, err |-> dec.err]

\* The end of GetLeases: nil and the error when decoding failed, the slice
\* otherwise.
DecodeReturn(dec) ==
    IF dec.err # NilErr THEN [leases |-> <<>>, err |-> dec.err]
    ELSE [leases |-> dec.leases, err |-> NilErr]

\* GetLeases from the outcome r of its http.Get onwards.
GetLeasesFrom(r) ==
    IF r.net # "ok" THEN [leases |-> <<>>, err |-> Err(r.net, 0)]
    ELSE IF ~StatusIsOK(r.status) THEN [leases |-> <<>>, err |-> Err("status", r.status)]
    ELSE IF ~r.readOk THEN [leases |-> <<>>, err |-> Err("read", 0)]
    ELSE DecodeReturn(jsonUnmarshal(r.body))

(****************************** Collect ************************************)
DescribeAfterSuccess(u, l) == IF logged > 0 THEN <<u>> ELSE <<u, l>>

\* Describe: both descriptors, in this order.
Describe(u, l) == <<u, l>>

\* Value of the `up` sample for the err GetLeases returned.
UpValue(e) == IF e # NilErr THEN 0 ELSE 1

AfterUpNoReturn(e) == "lease"

\* Where Collect goes after sending `up`: the error branch returns.
AfterUp(e) == IF e # NilErr THEN "done" ELSE "lease"

LeaseValueOffByOne(ls) == Len(ls) + 1

\* float64(len(leases))
LeaseValue(ls) == Len(ls)

CollectShared(f, p) == f[1]

\* A local variable of one Collect invocation: each invocation has its own.
CollectLocal(f, p) == f[p]

\* How the process ended: the cause and the exit status.
NoExit == [cause |-> "none", code |-> 0]
Exited(cause, code) == [cause |-> cause, code |-> code]

LogFatal(pcNow, exitNow) == [mainpc |-> "exited", exit |-> Exited("fetch", 1)]

\* log.Println(err): writes a line and returns; the process goes on.
LogPrintln(pcNow, exitNow) == [mainpc |-> pcNow, exit |-> exitNow]

Min(a, b) == IF a < b THEN a ELSE b

(******************************* main **************************************)
StartupStepIgnoreErr(e, next) == [mainpc |-> next, exit |-> NoExit]

\* `if err != nil { return err }` in App.Main followed by log.Fatal(err) in
\* main: a non-nil error ends the process with status 1.
StartupStep(e, next) ==
    IF e # "nil" THEN [mainpc |-> "exited", exit |-> Exited(e, 1)]
    ELSE [mainpc |-> next, exit |-> NoExit]

\* http.Handle panics on an empty pattern.
HandlePanics(path) == path = ""

ZeroApp == [Listen |-> "", Path |-> "", URI |-> ""]

(***************************** upstream ************************************)
LeasesBody(k) == ArrayBody([i \in 1..k |-> LeaseJSON(i)])

\* Answers of the license server in the concurrent runs.
ConcResponses ==
    {Refused, Response(503, TRUE, LeasesBody(1)), Response(StatusOK, TRUE, SyntaxBody)}
    \cup {Response(StatusOK, TRUE, LeasesBody(k)) : k \in 0..MaxLeases}

Arrays == UNION {[1..n -> Elems] : n \in 0..MaxLen}
Bodies == {NullBody, ObjectBody, SyntaxBody} \cup {ArrayBody(a) : a \in Arrays}

\* Answers of the license server in the decoding runs.
AllResponses ==
    {Refused, Response(StatusOK, FALSE, LeasesBody(1))}
    \cup {Response(st, TRUE, b) : st \in {204, 404, 503}, b \in {LeasesBody(1), SyntaxBody}}
    \cup {Response(StatusOK, TRUE, b) : b \in Bodies}

(****************************** states *************************************)
Idle(v) == [p \in Procs |-> v]

Init ==
    /\ mainpc = "start"
    /\ exit = NoExit
    /\ app = ZeroApp
    /\ exporter = NoExporter
    /\ registered = FALSE
    /\ up = UpDesc
    /\ lease = LeaseDesc
    /\ described = <<>>
    /\ upstream \in ConcResponses
    /\ pc = Idle("idle")
    /\ res = Idle(NoResponse)
    /\ leases = Idle(<<>>)
    /\ err = Idle(NilErr)
    /\ out = Idle(<<>>)
    /\ req = Idle(<<>>)
    /\ logged = 0

scrapeVars == <<pc, res, leases, err, out, req, logged>>
descVars == <<up, lease, described>>

\* App.Main, flag.Parse: an unknown flag ends the process with status 2.
ParseFlags ==
    /\ mainpc = "start"
    /\ \E argsOk \in BOOLEAN, uri \in URIs, path \in Paths :
         IF argsOk
         THEN /\ app' = [Listen |-> DefaultListen, Path |-> path, URI |-> uri]
              /\ mainpc' = "flags"
              /\ exit' = NoExit
         ELSE /\ app' = app
              /\ mainpc' = "exited"
              /\ exit' = Exited("flag", 2)
    /\ UNCHANGED <<exporter, registered, descVars, upstream, scrapeVars>>

\* App.Main, NewULSExporter(app.URI)
MakeExporter ==
    /\ mainpc = "flags"
    /\ LET r == NewULSExporter(app.URI)
           st == StartupStep(r.err, "built")
       IN  /\ exporter' = r.exporter
           /\ mainpc' = st.mainpc
           /\ exit' = st.exit
    /\ UNCHANGED <<app, registered, descVars, upstream, scrapeVars>>

\* App.Main, prometheus.Register(exporter): the registry calls Describe and
\* accepts or rejects the collector.
Register ==
    /\ mainpc = "built"
    /\ \E e \in {"nil", "register"} :
         LET st == StartupStep(e, "registered")
         IN  /\ registered' = (e = "nil")
             /\ mainpc' = st.mainpc
             /\ exit' = st.exit
    /\ described' = Describe(up, lease)
    /\ UNCHANGED <<app, exporter, up, lease, upstream, scrapeVars>>

\* App.Main, http.Handle(app.Path, promhttp.Handler())
Handle ==
    /\ mainpc = "registered"
    /\ IF HandlePanics(app.Path)
       THEN mainpc' = "exited" /\ exit' = Exited("panic", 2)
       ELSE mainpc' = "handled" /\ exit' = NoExit
    /\ UNCHANGED <<app, exporter, registered, descVars, upstream, scrapeVars>>

\* App.Main, http.ListenAndServe: fails to bind, or starts serving.
ListenAndServe ==
    /\ mainpc = "handled"
    /\ \E e \in {"nil", "serve"} :
         LET st == StartupStep(e, "serving")
         IN  mainpc' = st.mainpc /\ exit' = st.exit
    /\ UNCHANGED <<app, exporter, registered, descVars, upstream, scrapeVars>>

\* http.ListenAndServe returns an error while serving.
ServeError ==
    /\ mainpc = "serving"
    /\ LET st == StartupStep("serve", "serving")
       IN  mainpc' = st.mainpc /\ exit' = st.exit
    /\ UNCHANGED <<app, exporter, registered, descVars, upstream, scrapeVars>>

\* Describe called on the collector by its registry.
DescribeCall ==
    /\ mainpc \in {"built", "registered", "handled", "serving"}
    /\ described' = Describe(up, lease)
    /\ UNCHANGED <<mainpc, exit, app, exporter, registered, up, lease, upstream, scrapeVars>>

\* The license server's answer changes.
UpstreamChange(S) ==
    /\ upstream' \in S \ {upstream}
    /\ UNCHANGED <<mainpc, exit, app, exporter, registered, descVars, scrapeVars>>

\* A scrape request arrives: the registry calls Collect with a fresh channel.
Collect(p) ==
    /\ mainpc = "serving"
    /\ pc[p] \in {"idle", "done"}
    /\ pc' = [pc EXCEPT ![p] = "get"]
    /\ res' = [res EXCEPT ![p] = NoResponse]
    /\ out' = [out EXCEPT ![p] = <<>>]
    /\ req' = [req EXCEPT ![p] = <<>>]
    /\ UNCHANGED <<mainpc, exit, app, exporter, registered, descVars, upstream,
                   leases, err, logged>>

\* Collect calls GetLeases: the URL is resolved, http.Get makes the round
\* trip, the status is checked, the body read and decoded.
HttpGet(p) ==
    /\ mainpc = "serving"
    /\ pc[p] = "get"
    /\ LET u == ResolveReference(exporter.BaseURL, LeasePath)
           r == httpGet(u, upstream)
           g == GetLeasesFrom(r)
       IN  /\ req' = [req EXCEPT ![p] = Append(@, URLString(u))]
           /\ res' = [res EXCEPT ![p] = r]
           /\ leases' = [leases EXCEPT ![p] = g.leases]
           /\ err' = [err EXCEPT ![p] = g.err]
    /\ pc' = [pc EXCEPT ![p] = "ret"]
    /\ UNCHANGED <<mainpc, exit, app, exporter, registered, descVars, upstream,
                   out, logged>>

\* Collect sends `up`; in the error branch it logs the error and returns.
EmitUp(p) ==
    /\ mainpc = "serving"
    /\ pc[p] = "ret"
    /\ LET e == CollectLocal(err, p)
           st == LogPrintln(mainpc, exit)
           nxt == AfterUp(e)
       IN  /\ out' = [out EXCEPT ![p] = Append(@, ConstMetric(up, UpValue(e)))]
           /\ pc' = [pc EXCEPT ![p] = nxt]
           /\ IF e # NilErr
              THEN /\ logged' = Min(logged + 1, MaxLog)
                   /\ mainpc' = st.mainpc
                   /\ exit' = st.exit
              ELSE UNCHANGED <<logged, mainpc, exit>>
           /\ IF nxt = "done"
              THEN /\ leases' = [leases EXCEPT ![p] = <<>>]
                   /\ err' = [err EXCEPT ![p] = NilErr]
              ELSE UNCHANGED <<leases, err>>
    /\ UNCHANGED <<app, exporter, registered, descVars, upstream, res, req>>

\* Collect sends `lease` with the length of its slice and returns.
EmitLease(p) ==
    /\ mainpc = "serving"
    /\ pc[p] = "lease"
    /\ out' = [out EXCEPT ![p] =
                 Append(@, ConstMetric(lease, LeaseValue(CollectLocal(leases, p))))]
    /\ pc' = [pc EXCEPT ![p] = "done"]
    /\ leases' = [leases EXCEPT ![p] = <<>>]
    /\ err' = [err EXCEPT ![p] = NilErr]
    /\ UNCHANGED <<mainpc, exit, app, exporter, registered, descVars, upstream,
                   res, req, logged>>

Scrape(p) == Collect(p) \/ HttpGet(p) \/ EmitUp(p) \/ EmitLease(p)

Next ==
    \/ ParseFlags
    \/ MakeExporter
    \/ Register
    \/ Handle
    \/ ListenAndServe
    \/ ServeError
    \/ DescribeCall
    \/ UpstreamChange(ConcResponses)
    \/ \E p \in Procs : Scrape(p)

Spec == Init /\ [][Next]_vars

\* Decoding runs: one scrape at a time against every answer of AllResponses,
\* the answer changing between scrapes, from the serving state of a process
\* started with the default settings.
InitFetch ==
    /\ mainpc = "serving"
    /\ exit = NoExit
    /\ app = [Listen |-> DefaultListen, Path |-> DefaultPath, URI |-> DefaultURI]
    /\ exporter = NewULSExporter(DefaultURI).exporter
    /\ registered = TRUE
    /\ up = UpDesc
    /\ lease = LeaseDesc
    /\ described = Describe(UpDesc, LeaseDesc)
    /\ upstream \in AllResponses
    /\ pc = Idle("idle")
    /\ res = Idle(NoResponse)
    /\ leases = Idle(<<>>)
    /\ err = Idle(NilErr)
    /\ out = Idle(<<>>)
    /\ req = Idle(<<>>)
    /\ logged = 0

NextFetch ==
    \/ pc[1] \in {"idle", "done"} /\ UpstreamChange(AllResponses)
    \/ Scrape(1)

SpecFetch == InitFetch /\ [][NextFetch]_vars

(***************************************************************************)
(* Properties                                                              *)
(***************************************************************************)
\* The samples invocation p has sent, as <<series name, value>> pairs.
Emitted(p) == [i \in 1..Len(out[p]) |-> <<out[p][i].desc.fqName, out[p][i].value>>]
UpSample(v) == <<"uls_up", v>>
LeasesSample(n) == <<"uls_leases", n>>
NoLeasesSample(p) == \A i \in 1..Len(out[p]) : out[p][i].desc.fqName # "uls_leases"

\* A JSON object with an integer (or no) floatingLeaseId and a createdTimeUtc
\* string in the fixed format (or none).
IsLeaseRecord(e) ==
    /\ e.json = "object"
    /\ e.idType \in {"number", "absent"}
    /\ \/ e.createdType = "absent"
       \/ e.createdType = "string" /\ e.created \in {TimeZulu, TimeFrac}

Answered200(r) == r.net = "ok" /\ r.status = 200 /\ r.readOk

\* Status 200 and a body that is a JSON array of lease records.
ValidLeaseArray(r) ==
    /\ Answered200(r)
    /\ r.body.kind = "array"
    /\ \A i \in 1..Len(r.body.elems) : IsLeaseRecord(r.body.elems[i])

\* Status 200 and a body that is not JSON, is JSON of another type than an
\* array, or is an array with an element that is no object, has a member of
\* the wrong type or a timestamp not in the fixed format.
MalformedBody(r) ==
    /\ Answered200(r)
    /\ \/ r.body.kind \in {"syntax", "object"}
       \/ /\ r.body.kind = "array"
          /\ \E i \in 1..Len(r.body.elems) :
               LET e == r.body.elems[i]
               IN  \/ e.json = "number"
                   \/ e.json = "object" /\ e.idType = "string"
                   \/ e.json = "object" /\ e.createdType = "number"
                   \/ e.json = "object" /\ e.createdType = "string"
                      /\ e.created \notin {TimeZulu, TimeFrac}

\* C1: a 200 answer whose body is a valid JSON array of N lease records makes
\* the invocation emit exactly up=1 and then leases=N, N the length of the
\* array of its own fetch.
C1_SuccessEmitsCount ==
    \A p \in Procs :
        pc[p] = "done" /\ ValidLeaseArray(res[p])
        => Emitted(p) = <<UpSample(1), LeasesSample(Len(res[p].body.elems))>>

C1_Witness ==
    \E p \in Procs :
        /\ pc[p] = "done"
        /\ ValidLeaseArray(res[p])
        /\ Len(res[p].body.elems) = 2
        /\ Emitted(p) = <<UpSample(1), LeasesSample(2)>>

C4_UpThenLeasesIffUp ==
    \A p \in Procs :
        pc[p] = "done"
        => \/ Emitted(p) = <<UpSample(0)>>
           \/ /\ Len(out[p]) = 2
              /\ Emitted(p)[1] = UpSample(1)
              /\ Emitted(p)[2][1] = "uls_leases"
              /\ Emitted(p)[2][2] \in Nat

C4_Witness ==
    \E p \in Procs :
        /\ pc[p] = "done"
        /\ res[p] = Response(200, TRUE, ArrayBody(<<>>))
        /\ Emitted(p) = <<UpSample(1), LeasesSample(0)>>
        /\ logged > 0

\* C5: every Describe call sends both descriptors, uls_up and uls_leases,
\* whatever Collect cycles came before, and no step changes a descriptor.
C5_DescribeAdvertisesBoth ==
    [][/\ DescribeCall =>
            /\ Len(described') = 2
            /\ described'[1].fqName = "uls_up"
            /\ described'[2].fqName = "uls_leases"
       /\ up' = up
       /\ lease' = lease]_vars

C5_Witness ==
    /\ mainpc = "serving"
    /\ logged = MaxLog
    /\ \E p \in Procs : pc[p] = "done" /\ Emitted(p) = <<UpSample(0)>>
    /\ \E p \in Procs : pc[p] = "done" /\ Emitted(p)[1] = UpSample(1)
    /\ Len(described) = 2
    /\ described[1].fqName = "uls_up"
    /\ described[2].fqName = "uls_leases"

\* What the answer r to an invocation's own fetch calls for.
SamplesFor(r) ==
    IF ValidLeaseArray(r)
    THEN <<UpSample(1), LeasesSample(Len(r.body.elems))>>
    ELSE <<UpSample(0)>>

\* C6: with invocations overlapping in any interleaving while the upstream
\* changes, what each invocation has emitted is determined by the answer to
\* its own fetch alone, before and after it completes.
C6_OwnFetchOnly ==
    \A p \in Procs :
        /\ pc[p] = "done" => Emitted(p) = SamplesFor(res[p])
        /\ pc[p] = "lease" => Emitted(p) = <<SamplesFor(res[p])[1]>>

C6_Witness ==
    \E p, q \in Procs :
        /\ pc[p] = "lease"
        /\ pc[q] = "lease"
        /\ res[p] = Response(200, TRUE, LeasesBody(2))
        /\ res[q] = Response(200, TRUE, LeasesBody(0))
        /\ upstream = Refused

\* C7: a failed fetch ends in its own invocation: the step that emits up=0
\* returns from Collect, leaves the process serving and every other
\* invocation untouched; and whatever failures were logged, an invocation
\* whose own fetch succeeded emits up=1 and the count of its own answer.
C7_FailureContained ==
    /\ [][\A p \in Procs :
            pc[p] = "ret" /\ err[p] # NilErr /\ pc'[p] # "ret"
            => /\ pc'[p] = "done"
               /\ Emitted(p)' = <<UpSample(0)>>
               /\ mainpc' = "serving"
               /\ exit' = NoExit
               /\ \A q \in Procs \ {p} :
                    /\ pc'[q] = pc[q]
                    /\ res'[q] = res[q]
                    /\ leases'[q] = leases[q]
                    /\ err'[q] = err[q]
                    /\ out'[q] = out[q]]_vars
    /\ [](\A p \in Procs :
            logged > 0 /\ pc[p] = "done" /\ ValidLeaseArray(res[p])
            => Emitted(p) = <<UpSample(1), LeasesSample(Len(res[p].body.elems))>>)

C7_Witness ==
    \E p, q \in Procs :
        /\ mainpc = "serving"
        /\ logged > 0
        /\ pc[p] = "done"
        /\ Emitted(p) = <<UpSample(0)>>
        /\ pc[q] = "done"
        /\ Emitted(q) = <<UpSample(1), LeasesSample(2)>>

DecodableBody(b) ==
    \/ b.kind = "null"
    \/ /\ b.kind = "array"
       /\ \A i \in 1..Len(b.elems) : IsLeaseRecord(b.elems[i]) \/ b.elems[i].json = "null"

====
